---- MODULE Spec2Model ----
(***************************************************************************)
(* A model of fs.sshfs.SSHFS (src/fs/sshfs/sshfs.py): one SSHFS instance   *)
(* used by several threads against one remote SFTP server.                 *)
(*                                                                         *)
(* One step of a thread is one remote round trip (an SFTP request or a     *)
(* remote command) together with the local computation that follows it up  *)
(* to the next remote round trip.  The remote server is the environment:   *)
(* its directory tree and the stat record of every entry are state, its    *)
(* answers to shell commands are inputs.                                   *)
(***************************************************************************)
EXTENDS Naturals, Sequences, FiniteSets, TLC

VARIABLES
    conn,            \* "unopened", "connected" or "failed": SSHFS.__init__
    ctor,            \* the constructor's arguments and what client.connect got
    lock,            \* owner of self._lock (FS.__init__: threading.RLock), or "free"
    kind,            \* remote tree: path -> "absent" | "file" | "dir"
    meta,            \* remote stat record of every path
    _platform,       \* self._platform
    _locale,         \* self._locale
    probes,          \* how often each hint's remote probe has been executed, and
                     \* whether the platform property has answered from its cache
    th               \* per thread: the running operation and its position

vars == <<conn, ctor, lock, kind, meta, _platform, _locale, probes, th>>

(***************************************************************************)
(* Bounds and input sets                                                   *)
(***************************************************************************)
Threads == {"t1", "t2"}

\* Two remote paths: a top-level entry and an entry below it.
Paths == {"a", "a/b"}

\* A getent answer has at most MaxExtra fields more than its entry's length.
MaxExtra == 1

\* Probe counters stop counting at MaxProbes.
MaxProbes == 3

\* Numeric ids: root (falsy in Python) and an ordinary id.
Ids == {0, 1000}

\* Timestamps a setinfo request may carry.
Times == {1}

\* Permission values a setinfo request may carry (0o600).
Perms == {384}

Absent == "absent"

Min(a, b) == IF a < b THEN a ELSE b

(***************************************************************************)
(* The remote server (paramiko.SFTPClient against an SFTP server)          *)
(***************************************************************************)
Parent(p) == IF p = "a/b" THEN "a" ELSE "/"

Children(p) == {q \in Paths : Parent(q) = p}

ParentIsDir(k, p) == Parent(p) = "/" \/ k[Parent(p)] = "dir"

IsEmptyDir(k, p) == k[p] = "dir" /\ \A q \in Children(p) : k[q] = Absent

Entries(k, p) == {q \in Children(p) : k[q] # Absent}

NoStat == [uid |-> 0, gid |-> 0, perm |-> 0, atime |-> 0, mtime |-> 0]

\* The stat record of an entry the connection's user has just created.
NewStat(isdir) ==
    [uid |-> 1000, gid |-> 1000, perm |-> IF isdir THEN 493 ELSE 420,
     atime |-> 0, mtime |-> 0]

TreeOK(k) == \A p \in Paths : k[p] # Absent => ParentIsDir(k, p)

Trees == {k \in [Paths -> {Absent, "file", "dir"}] : TreeOK(k)}

InitialMeta(k) ==
    [p \in Paths |-> IF k[p] = Absent THEN NoStat ELSE NewStat(k[p] = "dir")]

(***************************************************************************)
(* fs.mode.Mode: a mode is the set of its characters                       *)
(***************************************************************************)
Modes == {s \cup p : s \in {{"r"}, {"w"}, {"a"}, {"x"}}, p \in {{}, {"+"}}}

reading(m) == "r" \in m \/ "+" \in m

create(m) == "a" \in m \/ "w" \in m \/ "x" \in m

exclusive(m) == "x" \in m

(***************************************************************************)
(* Thread records                                                          *)
(***************************************************************************)
\* A setinfo request: every field is {} (key absent) or {value}.
NoReq == [accessed |-> {}, modified |-> {}, uid |-> {}, gid |-> {}, permissions |-> {}]

Opt(S) == {{}} \cup {{v} : v \in S}

Requests ==
    [accessed : Opt(Times), modified : Opt(Times), uid : Opt(Ids), gid : Opt(Ids),
     permissions : Opt(Perms)]

\* What a thread remembers of an lstat answer.
NoSnap == [is_dir |-> FALSE, uid |-> 0, gid |-> 0]

\* The Info object getinfo returns: its namespaces and the keys of `access`.
NoInfo == [ns |-> {}, keys |-> {}]

Idle ==
    [op |-> "none", path |-> "a", mode |-> {}, recreate |-> FALSE, req |-> NoReq,
     ns |-> {}, phase |-> "idle", sub |-> "-", st |-> NoSnap, res |-> "-",
     calls |-> <<>>, info |-> NoInfo]

Done(s, r) == [s EXCEPT !.phase = "done", !.sub = "-", !.st = NoSnap, !.res = r]

Goto(s, ph, sb) == [s EXCEPT !.phase = ph, !.sub = sb, !.st = NoSnap]

\* One raw SFTP call that changes the server, as logged by the calling thread.
Call(c, x, y, ok) == [c |-> c, x |-> x, y |-> y, ok |-> ok]

Logged(s, c) == [s EXCEPT !.calls = Append(@, c)]

(***************************************************************************)
(* Error translation and platform enumeration (fs/sshfs/error_tools.py and  *)
(* fs/sshfs/enums.py)                                                       *)
(***************************************************************************)
\* convert_sshfs_errors: the raw failure's category decides the fs.errors class.
Translate(cause) ==
    CASE cause = "ENOENT" -> "ResourceNotFound"
      [] cause = "EACCES" -> "PermissionDenied"
      [] OTHER -> "OperationFailed"

Translated == {"ResourceNotFound", "PermissionDenied", "OperationFailed"}

\* Platform.Unix
Unix == {"Linux", "Darwin", "BSD"}

(***************************************************************************)
(* SSHFS.__init__                                                          *)
(***************************************************************************)
\* The look_for_keys keyword client.connect receives, from the pkey argument.
ConnectLookForKeys(pkey) == IF pkey = "None" THEN TRUE ELSE FALSE

(***************************************************************************)
(* Platform and locale hints                                               *)
(***************************************************************************)
\* bytes.endswith(b"BSD")
EndsWithBSD(u) == u \in {"FreeBSD", "OpenBSD", "NetBSD"}

\* uname_sys and sysinfo are _exec_command results: "None", or the trimmed stdout.
_guess_platform(uname_sys, sysinfo) ==
    IF sysinfo # "None" /\ sysinfo # ""
    THEN "Windows"
    ELSE IF uname_sys # "None" /\ (EndsWithBSD(uname_sys) \/ uname_sys = "DragonFly")
    THEN "BSD"
    ELSE IF uname_sys # "None" /\ uname_sys = "Darwin"
    THEN "Darwin"
    ELSE IF uname_sys # "None" /\ uname_sys = "Linux"
    THEN "Linux"
    ELSE "Unknown"

\* A platform property that takes a failed detection for an empty cache.
PlatformIsCachedUnlessUnknown(cached) == cached \notin {"None", "Unknown"}

\* The platform property's test: the probe runs only while the cache holds None.
PlatformIsCached(cached) == cached # "None"

\* _guess_locale, given the platform and the answer of `locale charmap`.
_guess_locale(plat, charmap) ==
    IF plat \in Unix /\ charmap # "None" THEN charmap ELSE "None"

\* The locale property.  self._locale is "Missing" while the attribute has never
\* been assigned: reading it raises AttributeError.  Otherwise the cached value
\* is returned, after one probe if it is None.
locale(cached, plat, charmap) ==
    IF cached = "Missing"
    THEN [exc |-> "AttributeError", value |-> "None", cache |-> cached, probed |-> 0]
    ELSE IF cached = "None"
    THEN [exc |-> "ok", value |-> _guess_locale(plat, charmap),
          cache |-> _guess_locale(plat, charmap), probed |-> 1]
    ELSE [exc |-> "ok", value |-> cached, cache |-> cached, probed |-> 0]

(***************************************************************************)
(* _make_info and _make_access_from_stat                                   *)
(***************************************************************************)
\* A _make_info that fills `details` whether requested or not.
_make_info_always_details(namespaces) ==
    {"basic", "details"}
    \cup (IF "stat" \in namespaces THEN {"stat"} ELSE {})
    \cup (IF "access" \in namespaces THEN {"access"} ELSE {})

\* The namespaces of the Info object _make_info builds for a request.
_make_info(namespaces) ==
    {"basic"}
    \cup (IF "details" \in namespaces THEN {"details"} ELSE {})
    \cup (IF "stat" \in namespaces THEN {"stat"} ELSE {})
    \cup (IF "access" \in namespaces THEN {"access"} ELSE {})

\* Whether building the record reads self.platform.
NeedsPlatform(namespaces) == "details" \in namespaces \/ "access" \in namespaces

\* Length of a group entry and of a passwd entry (targets[...]['len']).
GroupLen == 4

PasswdLen == 7

\* Answers of `getent` for an entry of the given length: out.ok is FALSE when
\* _exec_command returns None, out.n is the number of ':'-separated fields,
\* out.dec whether the name's bytes decode in the chosen encoding.
Outputs(len) ==
    {o \in [ok : BOOLEAN, n : 1 .. len + MaxExtra, dec : BOOLEAN] :
        \/ ~o.ok /\ o.n = 1 /\ o.dec
        \/ o.ok /\ o.n \in {1} \cup (len .. len + MaxExtra)}

\* One pass of the loop body over a target of the given length.  The result is
\* "name" (key set), "omit" (AttributeError swallowed) or the exception that
\* leaves the try statement.  loc is the outcome of reading self.locale.
ResolveName(out, len, loc) ==
    IF ~out.ok THEN "omit"                       \* None.split: AttributeError
    ELSE IF out.n > len THEN "TypeError"         \* struct_group / struct_passwd
    ELSE IF loc.exc = "AttributeError" THEN "omit"
    ELSE IF out.dec THEN "name"
    ELSE "UnicodeDecodeError"

\* _make_access_from_stat on a Unix platform: group first, then passwd.
\* [exc, keys, cache, probed]: the exception raised ("ok" if none), the keys of
\* the access dictionary, self._locale afterwards, locale probes executed.
_make_access_from_stat(plat, cached, outG, outP, charmap) ==
    LET base == {"permissions", "gid", "uid"}
        l1 == locale(cached, plat, charmap)
        readsLoc1 == outG.ok /\ outG.n <= GroupLen
        c1 == IF readsLoc1 THEN l1.cache ELSE cached
        p1 == IF readsLoc1 THEN l1.probed ELSE 0
        r1 == ResolveName(outG, GroupLen, l1)
        l2 == locale(c1, plat, charmap)
        readsLoc2 == outP.ok /\ outP.n <= PasswdLen
        c2 == IF readsLoc2 THEN l2.cache ELSE c1
        p2 == IF readsLoc2 THEN l2.probed ELSE 0
        r2 == ResolveName(outP, PasswdLen, l2)
        k1 == IF r1 = "name" THEN {"group"} ELSE {}
        k2 == IF r2 = "name" THEN {"user"} ELSE {}
    IN  IF plat \notin Unix
        THEN [exc |-> "ok", keys |-> base, cache |-> cached, probed |-> 0]
        ELSE IF r1 \notin {"name", "omit"}
        THEN [exc |-> r1, keys |-> {}, cache |-> c1, probed |-> p1]
        ELSE IF r2 \notin {"name", "omit"}
        THEN [exc |-> r2, keys |-> {}, cache |-> c2, probed |-> p1 + p2]
        ELSE [exc |-> "ok", keys |-> base \cup k1 \cup k2, cache |-> c2,
              probed |-> p1 + p2]

(***************************************************************************)
(* setinfo, _chown, _utime                                                 *)
(***************************************************************************)
\* A setinfo that sets the permissions before the ownership.
SetinfoStepsChmodFirst(req) ==
    (IF req.accessed # {} \/ req.modified # {} THEN <<"utime">> ELSE <<>>)
    \o (IF req.permissions # {} THEN <<"chmod">> ELSE <<>>)
    \o (IF req.uid # {} \/ req.gid # {} THEN <<"chown">> ELSE <<>>)

\* The raw metadata calls setinfo makes for a request, in the order it makes them.
SetinfoSteps(req) ==
    (IF req.accessed # {} \/ req.modified # {} THEN <<"utime">> ELSE <<>>)
    \o (IF req.uid # {} \/ req.gid # {} THEN <<"chown">> ELSE <<>>)
    \o (IF req.permissions # {} THEN <<"chmod">> ELSE <<>>)

\* Python's `given or current` on an optional id: None and 0 are both falsy.
OrCurrent(given, current) ==
    IF given = {} \/ given = {0} THEN current ELSE CHOOSE v \in given : TRUE

\* _chown reads the server's ids only when one of the two is None.
ChownReads(req) == req.uid = {} \/ req.gid = {}

\* The (uid, gid) _chown passes to sftp.chown; cur is the stat read by getinfo.
ChownArgs(req, cur) ==
    IF ChownReads(req)
    THEN <<OrCurrent(req.uid, cur.uid), OrCurrent(req.gid, cur.gid)>>
    ELSE <<CHOOSE v \in req.uid : TRUE, CHOOSE v \in req.gid : TRUE>>

\* The (accessed, modified) _utime passes to sftp.utime: each defaults to the other.
UtimeArgs(req) ==
    LET acc == IF req.accessed = {} THEN req.modified ELSE req.accessed
        mod == IF req.modified = {} THEN acc ELSE req.modified
    IN  <<CHOOSE v \in acc : TRUE, CHOOSE v \in mod : TRUE>>

(***************************************************************************)
(* openbin and makedir: the local decisions                                *)
(***************************************************************************)
\* An openbin that leaves the directory test to the server when creating.
OpenbinCheckNoIsdirOnCreate(mode, k) ==
    IF exclusive(mode) /\ k # Absent THEN "FileExists"
    ELSE IF reading(mode) /\ ~create(mode) /\ k = Absent THEN "ResourceNotFound"
    ELSE IF k = "dir" /\ ~create(mode) THEN "FileExpected"
    ELSE "open"

\* openbin's checks under the lock, on what exists() and isdir() report for the
\* path: the error raised, or "open" when the raw open call is reached.
OpenbinCheck(mode, k) ==
    IF exclusive(mode) /\ k # Absent THEN "FileExists"
    ELSE IF reading(mode) /\ ~create(mode) /\ k = Absent THEN "ResourceNotFound"
    ELSE IF k = "dir" THEN "FileExpected"
    ELSE "open"

\* makedir's decision when getinfo found the path.
MakedirExisting(is_dir, recreate) ==
    IF (is_dir /\ ~recreate) \/ ~is_dir THEN "DirectoryExists" ELSE "opendir"

(***************************************************************************)
(* Construction                                                            *)
(***************************************************************************)
\* SSHFS(host, pkey=ctor.pkey) and, when ctor.lfk is not "unset", a
\* look_for_keys keyword: __init__ has no such parameter, so the call raises
\* TypeError before client.connect.  Otherwise connect receives look_for_keys
\* computed from pkey, and either succeeds or fails with CreateFailed.
Construct ==
    /\ conn = "unopened"
    /\ IF ctor.lfk # "unset"
       THEN /\ conn' = "failed"
            /\ UNCHANGED <<ctor, _platform>>
       ELSE \E reachable \in BOOLEAN :
            /\ ctor' = [ctor EXCEPT !.received =
                            IF ConnectLookForKeys(ctor.pkey) THEN "true" ELSE "false"]
            /\ conn' = IF reachable THEN "connected" ELSE "failed"
            /\ _platform' = IF reachable THEN "None" ELSE _platform
    /\ UNCHANGED <<lock, kind, meta, _locale, probes, th>>

(***************************************************************************)
(* Calling an operation: self.check(), validatepath, argument parsing       *)
(***************************************************************************)
Start(t, s) ==
    /\ conn = "connected"
    /\ th[t].phase = "idle"
    /\ th' = [th EXCEPT ![t] = s]
    /\ UNCHANGED <<conn, ctor, lock, kind, meta, _platform, _locale, probes>>

CallGetinfo(t, I) ==
    \E p \in I.paths, ns \in I.namespaces :
        Start(t, [Idle EXCEPT !.op = "getinfo", !.path = p, !.ns = ns,
                              !.phase = "getinfo", !.sub = "lstat"])

CallOpenbin(t, I) ==
    \E p \in I.paths, m \in I.modes :
        Start(t, [Idle EXCEPT !.op = "openbin", !.path = p, !.mode = m,
                              !.phase = "ob_lock"])

CallMakedir(t, I) ==
    \E p \in I.paths, r \in BOOLEAN :
        Start(t, [Idle EXCEPT !.op = "makedir", !.path = p, !.recreate = r,
                              !.phase = "md_probe", !.sub = "lstat"])

CallRemove(t, I) ==
    \E p \in I.paths :
        Start(t, [Idle EXCEPT !.op = "remove", !.path = p,
                              !.phase = "rm_probe", !.sub = "lstat"])

CallRemovedir(t, I) ==
    \E p \in I.paths :
        Start(t, [Idle EXCEPT !.op = "removedir", !.path = p,
                              !.phase = "rd_type", !.sub = "lstat"])

CallSetinfo(t, I) ==
    \E p \in I.paths, r \in I.requests :
        Start(t, [Idle EXCEPT !.op = "setinfo", !.path = p, !.req = r,
                              !.phase = "si_probe", !.sub = "lstat"])

\* The caller takes the result; the thread is free for its next call.
Return(t) ==
    /\ th[t].phase = "done"
    /\ th' = [th EXCEPT ![t] = Idle]
    /\ UNCHANGED <<conn, ctor, lock, kind, meta, _platform, _locale, probes>>

(***************************************************************************)
(* getinfo, and the FS methods built on it (exists, isdir, gettype,        *)
(* opendir, isempty), as sub-steps "lstat", "guess", "getent"              *)
(***************************************************************************)
\* The namespaces of the getinfo call a thread is inside.
NsOf(s) ==
    CASE s.phase = "getinfo" -> s.ns
      [] s.phase \in {"rm_probe", "rd_type"} -> {"details"}    \* FS.gettype
      [] s.phase = "si_chown_get" -> {"access"}                \* _chown
      [] OTHER -> {}

\* The path of that getinfo call: isempty looks at the first entry listed.
ProbePath(s) ==
    IF s.phase = "rd_child" THEN CHOOSE q \in Children(s.path) : TRUE ELSE s.path

\* Where setinfo goes for step i of its plan.
SetinfoGoto(s, i) ==
    LET plan == SetinfoSteps(s.req)
    IN  IF i > Len(plan) THEN Done(s, "ok")
        ELSE IF plan[i] = "utime" THEN Goto(s, "si_utime", "-")
        ELSE IF plan[i] = "chmod" THEN Goto(s, "si_chmod", "-")
        ELSE IF ChownReads(s.req) THEN Goto(s, "si_chown_get", "lstat")
        ELSE Goto(s, "si_chown", "-")

SetinfoAfter(s, c) ==
    LET plan == SetinfoSteps(s.req)
    IN  SetinfoGoto(s, 1 + CHOOSE i \in 1 .. Len(plan) : plan[i] = c)

\* A setinfo without the existence probe's test.
SetinfoProbeIgnored(s, exc) == SetinfoGoto(s, 1)

\* setinfo's existence probe: exists() turns getinfo's ResourceNotFound into False.
SetinfoProbe(s, exc) ==
    IF exc # "ok" THEN Done(s, "ResourceNotFound") ELSE SetinfoGoto(s, 1)

\* The caller's code after its getinfo call returned (exc = "ok", with the
\* stat snapshot and the Info built) or raised exc.
Resume(s, exc, snap, inf) ==
    CASE s.phase = "getinfo" ->
            IF exc = "ok" THEN [Done(s, "ok") EXCEPT !.info = inf] ELSE Done(s, exc)
      [] s.phase = "md_probe" ->
            IF exc = "ResourceNotFound" THEN Goto(s, "md_mkdir", "-")
            ELSE IF exc # "ok" THEN Done(s, exc)
            ELSE IF MakedirExisting(snap.is_dir, s.recreate) = "DirectoryExists"
            THEN Done(s, "DirectoryExists")
            ELSE Goto(s, "md_opendir", "lstat")
      [] s.phase = "md_opendir" ->
            IF exc # "ok" THEN Done(s, exc)
            ELSE IF snap.is_dir THEN Done(s, "ok")
            ELSE Done(s, "DirectoryExpected")
      [] s.phase = "rm_probe" ->
            IF exc # "ok" THEN Done(s, exc)
            ELSE IF snap.is_dir THEN Done(s, "FileExpected")
            ELSE Goto(s, "rm_remove", "-")
      [] s.phase = "rd_type" ->
            IF exc # "ok" THEN Done(s, exc)
            ELSE IF ~snap.is_dir THEN Done(s, "DirectoryExpected")
            ELSE Goto(s, "rd_list", "-")
      [] s.phase = "rd_child" ->
            IF exc # "ok" THEN Done(s, exc) ELSE Done(s, "DirectoryNotEmpty")
      [] s.phase = "si_probe" -> SetinfoProbe(s, exc)
      [] s.phase = "si_chown_get" ->
            IF exc # "ok" THEN Done(s, exc)
            ELSE [Goto(s, "si_chown", "-") EXCEPT !.st = snap]

BaseKeys == {"permissions", "gid", "uid"}

InfoOf(ns, keys) ==
    [ns |-> _make_info(ns), keys |-> IF "access" \in ns THEN keys ELSE {}]

Bump(hint, n) == [probes EXCEPT ![hint] = Min(@ + n, MaxProbes)]

\* sftp.lstat, then _make_info up to its first remote command.
Lstat(t) ==
    LET s == th[t]
        p == ProbePath(s)
        ns == NsOf(s)
        snap == [is_dir |-> kind[p] = "dir", uid |-> meta[p].uid, gid |-> meta[p].gid]
    IN  /\ s.sub = "lstat"
        /\ th' = [th EXCEPT ![t] =
                IF kind[p] = Absent
                THEN Resume(s, Translate("ENOENT"), NoSnap, NoInfo)
                ELSE IF NeedsPlatform(ns) /\ ~PlatformIsCached(_platform)
                THEN [s EXCEPT !.sub = "guess", !.st = snap]
                ELSE IF "access" \in ns /\ _platform \in Unix
                THEN [s EXCEPT !.sub = "getent", !.st = snap]
                ELSE Resume(s, "ok", snap, InfoOf(ns, BaseKeys))]
        /\ probes' = IF kind[p] # Absent /\ NeedsPlatform(ns) /\ PlatformIsCached(_platform)
                     THEN [probes EXCEPT !.hit = TRUE] ELSE probes
        /\ UNCHANGED <<conn, ctor, lock, kind, meta, _platform, _locale>>

\* The platform property found the cache empty: _guess_platform runs its two
\* commands and the result is stored.
Guess(t, I) ==
    LET s == th[t]
        ns == NsOf(s)
    IN  /\ s.sub = "guess"
        /\ \E uname_sys \in I.uname, sysinfo \in I.sysinfo :
            LET plat == _guess_platform(uname_sys, sysinfo)
            IN  /\ _platform' = plat
                /\ th' = [th EXCEPT ![t] =
                        IF "access" \in ns /\ plat \in Unix
                        THEN [s EXCEPT !.sub = "getent"]
                        ELSE Resume(s, "ok", s.st, InfoOf(ns, BaseKeys))]
        /\ probes' = Bump("platform", 1)
        /\ UNCHANGED <<conn, ctor, lock, kind, meta, _locale>>

\* _make_access_from_stat on a Unix platform: the two getent commands.
Getent(t, I) ==
    LET s == th[t]
    IN  /\ s.sub = "getent"
        /\ \E outG \in I.group, outP \in I.passwd, charmap \in I.charmap :
            LET a == _make_access_from_stat(_platform, _locale, outG, outP, charmap)
            IN  /\ th' = [th EXCEPT ![t] =
                        Resume(s, a.exc, s.st, InfoOf(NsOf(s), a.keys))]
                /\ _locale' = a.cache
                /\ probes' = Bump("locale", a.probed)
        /\ UNCHANGED <<conn, ctor, lock, kind, meta, _platform>>

(***************************************************************************)
(* openbin: everything after argument parsing runs inside `with self._lock` *)
(***************************************************************************)
OpenbinLock(t) ==
    /\ th[t].phase = "ob_lock"
    /\ lock = "free"
    /\ lock' = t
    /\ th' = [th EXCEPT ![t] = Goto(@, "ob_probe", "-")]
    /\ UNCHANGED <<conn, ctor, kind, meta, _platform, _locale, probes>>

\* The exists() and isdir() probes (each one lstat) and the checks on them.
OpenbinProbe(t) ==
    LET s == th[t]
        r == OpenbinCheck(s.mode, kind[s.path])
    IN  /\ s.phase = "ob_probe"
        /\ th' = [th EXCEPT ![t] = IF r = "open" THEN Goto(s, "ob_open", "-")
                                                ELSE Done(s, r)]
        /\ lock' = IF r = "open" THEN lock ELSE "free"
        /\ UNCHANGED <<conn, ctor, kind, meta, _platform, _locale, probes>>

\* What the server answers to an open with the mode's flags.
ServerOpen(k, p, m) ==
    IF k[p] = "dir" THEN "EFAIL"
    ELSE IF k[p] = "file" THEN (IF "x" \in m THEN "EFAIL" ELSE "ok")
    ELSE IF create(m) /\ ParentIsDir(k, p) THEN "ok"
    ELSE "ENOENT"

\* sftp.open; the lock is released on the way out.
OpenbinOpen(t) ==
    LET s == th[t]
        a == ServerOpen(kind, s.path, s.mode)
    IN  /\ s.phase = "ob_open"
        /\ th' = [th EXCEPT ![t] =
                Done(Logged(s, Call("open", 0, 0, a = "ok")),
                     IF a = "ok" THEN "ok" ELSE Translate(a))]
        /\ IF a = "ok" /\ kind[s.path] = Absent
           THEN /\ kind' = [kind EXCEPT ![s.path] = "file"]
                /\ meta' = [meta EXCEPT ![s.path] = NewStat(FALSE)]
           ELSE UNCHANGED <<kind, meta>>
        /\ lock' = "free"
        /\ UNCHANGED <<conn, ctor, _platform, _locale, probes>>

(***************************************************************************)
(* makedir, remove, removedir: the raw call alone is inside the lock        *)
(***************************************************************************)
\* with self._lock: sftp.mkdir(_path, mode); then opendir(path).
MakedirMkdir(t) ==
    LET s == th[t]
        p == s.path
        a == IF kind[p] # Absent THEN "EFAIL"
             ELSE IF ~ParentIsDir(kind, p) THEN "ENOENT" ELSE "ok"
        s1 == Logged(s, Call("mkdir", 0, 0, a = "ok"))
    IN  /\ s.phase = "md_mkdir"
        /\ lock = "free"
        /\ th' = [th EXCEPT ![t] = IF a = "ok" THEN Goto(s1, "md_opendir", "lstat")
                                                ELSE Done(s1, Translate(a))]
        /\ IF a = "ok"
           THEN /\ kind' = [kind EXCEPT ![p] = "dir"]
                /\ meta' = [meta EXCEPT ![p] = NewStat(TRUE)]
           ELSE UNCHANGED <<kind, meta>>
        /\ UNCHANGED <<conn, ctor, lock, _platform, _locale, probes>>

\* with self._lock: sftp.remove(_path).
RemoveRemove(t) ==
    LET s == th[t]
        p == s.path
        a == IF kind[p] = Absent THEN "ENOENT"
             ELSE IF kind[p] = "dir" THEN "EFAIL" ELSE "ok"
        s1 == Logged(s, Call("remove", 0, 0, a = "ok"))
    IN  /\ s.phase = "rm_remove"
        /\ lock = "free"
        /\ th' = [th EXCEPT ![t] = Done(s1, IF a = "ok" THEN "ok" ELSE Translate(a))]
        /\ IF a = "ok"
           THEN /\ kind' = [kind EXCEPT ![p] = Absent]
                /\ meta' = [meta EXCEPT ![p] = NoStat]
           ELSE UNCHANGED <<kind, meta>>
        /\ UNCHANGED <<conn, ctor, lock, _platform, _locale, probes>>

\* isempty -> scandir -> listdir: sftp.listdir after the type probe.
RemovedirList(t) ==
    LET s == th[t]
        p == s.path
        a == IF kind[p] = Absent THEN "ENOENT"
             ELSE IF kind[p] # "dir" THEN "EFAIL" ELSE "ok"
    IN  /\ s.phase = "rd_list"
        /\ th' = [th EXCEPT ![t] =
                IF a # "ok" THEN Done(s, Translate(a))
                ELSE IF Entries(kind, p) = {} THEN Goto(s, "rd_rmdir", "-")
                ELSE Goto(s, "rd_child", "lstat")]
        /\ UNCHANGED <<conn, ctor, lock, kind, meta, _platform, _locale, probes>>

\* with self._lock: sftp.rmdir(path).
RemovedirRmdir(t) ==
    LET s == th[t]
        p == s.path
        a == IF kind[p] = Absent THEN "ENOENT"
             ELSE IF ~IsEmptyDir(kind, p) THEN "EFAIL" ELSE "ok"
        s1 == Logged(s, Call("rmdir", 0, 0, a = "ok"))
    IN  /\ s.phase = "rd_rmdir"
        /\ lock = "free"
        /\ th' = [th EXCEPT ![t] = Done(s1, IF a = "ok" THEN "ok" ELSE Translate(a))]
        /\ IF a = "ok"
           THEN /\ kind' = [kind EXCEPT ![p] = Absent]
                /\ meta' = [meta EXCEPT ![p] = NoStat]
           ELSE UNCHANGED <<kind, meta>>
        /\ UNCHANGED <<conn, ctor, lock, _platform, _locale, probes>>

(***************************************************************************)
(* setinfo: the raw metadata calls, none of them inside the lock            *)
(***************************************************************************)
\* A raw metadata call on p fails when p is gone, or when the server denies it.
MetaAnswer(p, denied) ==
    IF kind[p] = Absent THEN "ENOENT" ELSE IF denied THEN "EACCES" ELSE "ok"

\* One raw metadata call c with arguments (x, y): the server's answer, the
\* thread's log and position, and the stat record when it succeeded.
MetaCall(t, c, x, y, newstat) ==
    LET s == th[t]
        p == s.path
    IN  \E denied \in BOOLEAN :
        LET a == MetaAnswer(p, denied)
            s1 == Logged(s, Call(c, x, y, a = "ok"))
        IN  /\ th' = [th EXCEPT ![t] = IF a = "ok" THEN SetinfoAfter(s1, c)
                                                    ELSE Done(s1, Translate(a))]
            /\ meta' = IF a = "ok" THEN [meta EXCEPT ![p] = newstat] ELSE meta
            /\ UNCHANGED <<conn, ctor, lock, kind, _platform, _locale, probes>>

SetinfoUtime(t) ==
    LET s == th[t]
        a == UtimeArgs(s.req)
    IN  /\ s.phase = "si_utime"
        /\ MetaCall(t, "utime", a[1], a[2],
                    [meta[s.path] EXCEPT !.atime = a[1], !.mtime = a[2]])

SetinfoChown(t) ==
    LET s == th[t]
        a == ChownArgs(s.req, s.st)
    IN  /\ s.phase = "si_chown"
        /\ MetaCall(t, "chown", a[1], a[2],
                    [meta[s.path] EXCEPT !.uid = a[1], !.gid = a[2]])

SetinfoChmod(t) ==
    LET s == th[t]
        m == CHOOSE v \in s.req.permissions : TRUE
    IN  /\ s.phase = "si_chmod"
        /\ MetaCall(t, "chmod", m, 0, [meta[s.path] EXCEPT !.perm = m])

(***************************************************************************)
(* Specifications                                                          *)
(***************************************************************************)
TypeOK ==
    /\ conn \in {"unopened", "connected", "failed"}
    /\ lock \in Threads \cup {"free"}
    /\ kind \in Trees

\* Everything a caller and the server may feed in.
AllInputs ==
    [paths |-> {"a"},
     namespaces |-> SUBSET {"basic", "details", "stat", "access", "link"},
     modes |-> Modes,
     requests |-> Requests,
     uname |-> {"None", "Linux", "FreeBSD"},
     sysinfo |-> {"None", "", "Windows 10"},
     group |-> Outputs(GroupLen),
     passwd |-> Outputs(PasswdLen),
     charmap |-> {"utf-8"}]

\* A smaller choice for runs with overlapping operations: every operation on
\* both paths, one request that makes all three metadata calls.
FewInputs ==
    [paths |-> Paths,
     namespaces |-> {{"access"}},
     modes |-> {{"r"}, {"w"}, {"x"}},
     requests |-> {r \in Requests : r.accessed # {} /\ r.modified = {} /\ r.uid = {1000}
                                   /\ r.gid = {1000} /\ r.permissions # {}},
     uname |-> {"Linux"},
     sysinfo |-> {"None"},
     group |-> {o \in Outputs(GroupLen) : o.ok /\ o.dec /\ o.n = GroupLen},
     passwd |-> {o \in Outputs(PasswdLen) : ~o.ok},
     charmap |-> {"utf-8"}]

Step(t, I) ==
    \/ CallGetinfo(t, I)
    \/ CallOpenbin(t, I)
    \/ CallMakedir(t, I)
    \/ CallRemove(t, I)
    \/ CallRemovedir(t, I)
    \/ CallSetinfo(t, I)
    \/ Return(t)
    \/ Lstat(t)
    \/ Guess(t, I)
    \/ Getent(t, I)
    \/ OpenbinLock(t)
    \/ OpenbinProbe(t)
    \/ OpenbinOpen(t)
    \/ MakedirMkdir(t)
    \/ RemoveRemove(t)
    \/ RemovedirList(t)
    \/ RemovedirRmdir(t)
    \/ SetinfoUtime(t)
    \/ SetinfoChown(t)
    \/ SetinfoChmod(t)

\* Before construction: any constructor arguments, any remote tree.
InitUnopened ==
    /\ conn = "unopened"
    /\ ctor \in [pkey : {"None", "key"}, lfk : {"unset", "true", "false"},
                  received : {"none"}]
    /\ lock = "free"
    /\ kind \in Trees
    /\ meta = InitialMeta(kind)
    /\ _platform = "Missing"
    /\ _locale = "Missing"
    /\ probes = [platform |-> 0, locale |-> 0, hit |-> FALSE]
    /\ th = [t \in Threads |-> Idle]

\* A connected instance, constructed with host and password alone.
Init ==
    /\ conn = "connected"
    /\ ctor = [pkey |-> "None", lfk |-> "unset", received |-> "true"]
    /\ lock = "free"
    /\ kind \in Trees
    /\ meta = InitialMeta(kind)
    /\ _platform = "None"
    /\ _locale = "Missing"
    /\ probes = [platform |-> 0, locale |-> 0, hit |-> FALSE]
    /\ th = [t \in Threads |-> Idle]

\* Several threads share the connected instance.
Next == \E t \in Threads : Step(t, FewInputs)

Spec == Init /\ [][Next]_vars

\* One caller, from construction on: every operation returns before the next
\* is called.
NextSeq == Construct \/ Step("t1", AllInputs)

SpecSeq == InitUnopened /\ [][NextSeq]_vars

(***************************************************************************)
(* Properties                                                              *)
(***************************************************************************)
MutationOps == {"openbin", "makedir", "remove", "removedir", "setinfo"}

\* A thread whose mutation has probed its precondition and still has a raw call
\* of its sequence ahead.
InWindow(s) ==
    s.phase \in {"ob_open", "md_mkdir", "rm_remove", "rd_list", "rd_child", "rd_rmdir",
                 "si_utime", "si_chown_get", "si_chown", "si_chmod"}

\* Thread u issues a raw SFTP call that changes the server in this step.
RawCallStep(u) == Len(th'[u].calls) > Len(th[u].calls)

\* C1: a mutation operation's probes and raw calls run as one serialized
\* sequence: while a thread is between its precondition probe and a raw call
\* of its operation, no other thread issues a raw mutation call.
C1_MutationsSerialized ==
    [][\A t \in Threads, u \in Threads :
          (t # u /\ th[t].op \in MutationOps /\ InWindow(th[t])) => ~RawCallStep(u)]_vars

OpenbinOnDirectory(t) ==
    /\ th[t].phase = "done"
    /\ th[t].op = "openbin"
    /\ kind[th[t].path] = "dir"

\* C2 as stated: openbin on an existing directory fails with FileExpected in
\* every valid mode, and no raw open is issued.
C2_FileExpectedInEveryMode ==
    \A t \in Threads :
        OpenbinOnDirectory(t) => th[t].res = "FileExpected" /\ th[t].calls = <<>>

\* C2 amended: openbin on an existing directory issues no raw open and fails:
\* with FileExists when the mode is exclusive, with FileExpected otherwise.
C2_DirectoryNeverOpened ==
    \A t \in Threads :
        OpenbinOnDirectory(t) =>
            /\ th[t].calls = <<>>
            /\ th[t].res = IF "x" \in th[t].mode THEN "FileExists" ELSE "FileExpected"

C2_Witness ==
    \E t \in Threads :
        OpenbinOnDirectory(t) /\ th[t].mode = {"w", "+"} /\ th[t].res = "FileExpected"

\* C3: the raw rmdir call is never issued against a directory that has an
\* entry at the time of the call.
C3_RmdirOnlyOnEmpty ==
    [][\A t \in Threads :
          (th[t].phase = "rd_rmdir" /\ th'[t] # th[t])
              => Entries(kind, th[t].path) = {}]_vars

\* C4: setinfo on a path that does not exist fails with ResourceNotFound and
\* issues none of the raw metadata calls.
C4_SetinfoMissingPath ==
    \A t \in Threads :
        (th[t].phase = "done" /\ th[t].op = "setinfo" /\ kind[th[t].path] = Absent)
            => th[t].res = "ResourceNotFound" /\ th[t].calls = <<>>

C4_Witness ==
    \E t \in Threads :
        /\ th[t].phase = "done" /\ th[t].op = "setinfo" /\ kind[th[t].path] = Absent
        /\ th[t].req.uid = {0} /\ th[t].req.permissions # {}
        /\ th[t].res = "ResourceNotFound"

\* The order the specification gives: timestamps, ownership, permissions.
StatedOrder(req) ==
    LET want == [c \in {"utime", "chown", "chmod"} |->
                    CASE c = "utime" -> req.accessed # {} \/ req.modified # {}
                      [] c = "chown" -> req.uid # {} \/ req.gid # {}
                      [] c = "chmod" -> req.permissions # {}]
    IN  SelectSeq(<<"utime", "chown", "chmod">>, LAMBDA c : want[c])

\* The stat record shows what a successful raw metadata call wrote.
Applied(st, c) ==
    CASE c.c = "utime" -> st.atime = c.x /\ st.mtime = c.y
      [] c.c = "chown" -> st.uid = c.x /\ st.gid = c.y
      [] c.c = "chmod" -> st.perm = c.x
      [] OTHER -> TRUE

\* C5: setinfo on an existing path issues utime, chown, chmod in that order,
\* each only if requested; a failed call is the last one issued, the caller
\* gets one translated error, and what the calls before it wrote stays written.
C5_SetinfoOrderNoRollback ==
    \A t \in Threads :
        LET s == th[t]
            n == Len(s.calls)
            plan == StatedOrder(s.req)
        IN  s.op = "setinfo" =>
            /\ n <= Len(plan)
            /\ \A i \in 1 .. n : s.calls[i].c = plan[i]
            /\ \A i \in 1 .. n : i < n => s.calls[i].ok
            /\ \A i \in 1 .. n : s.calls[i].ok => Applied(meta[s.path], s.calls[i])
            /\ (n > 0 /\ ~s.calls[n].ok) => (s.phase = "done" /\ s.res \in Translated)
            /\ (s.phase = "done" /\ s.res = "ok") =>
                    (n = Len(plan) /\ \A i \in 1 .. n : s.calls[i].ok)

C5_Witness ==
    \E t \in Threads :
        LET s == th[t]
        IN  /\ s.op = "setinfo" /\ s.phase = "done" /\ s.res = "PermissionDenied"
            /\ s.req.permissions # {}
            /\ Len(s.calls) = 2
            /\ s.calls[1].c = "utime" /\ s.calls[1].ok
            /\ s.calls[2].c = "chown" /\ ~s.calls[2].ok
            /\ meta[s.path].mtime = 1 /\ meta[s.path].perm # 384

\* C6: client.connect receives look_for_keys=False only when look-for-keys was
\* set to false; with it unset or true, with or without a pkey, it receives True.
C6_LookForKeysDefault ==
    ctor.received # "none" =>
        ctor.received = IF ctor.lfk = "false" THEN "false" ELSE "true"

GetinfoReturned(t) ==
    th[t].phase = "done" /\ th[t].op = "getinfo" /\ th[t].res = "ok"

\* C7 as stated: the record holds exactly `basic` and every requested namespace.
C7_ExactlyRequested ==
    \A t \in Threads : GetinfoReturned(t) => th[t].info.ns = {"basic"} \cup th[t].ns

\* C7 amended: the record holds exactly `basic` and those of `details`, `stat`
\* and `access` that were requested; any other requested namespace is left out.
C7_BasicPlusSupported ==
    \A t \in Threads :
        GetinfoReturned(t) =>
            th[t].info.ns = {"basic"} \cup (th[t].ns \cap {"details", "stat", "access"})

C7_Witness ==
    \E t \in Threads :
        /\ GetinfoReturned(t)
        /\ th[t].ns = {"stat", "access", "link"}
        /\ th[t].info.ns = {"basic", "stat", "access"}

\* C8: getinfo with the access namespace on an existing path returns the record
\* with permissions, uid and gid whatever the identity lookups answer.
C8_NameLookupNeverFails ==
    \A t \in Threads :
        (th[t].phase = "done" /\ th[t].op = "getinfo" /\ "access" \in th[t].ns
            /\ kind[th[t].path] # Absent)
            => th[t].res = "ok" /\ BaseKeys \subseteq th[t].info.keys

HintSet(h) == h \notin {"Missing", "None"}

C10_ChownKeepsGivenId ==
    \A t \in Threads :
        LET s == th[t]
            a == ChownArgs(s.req, s.st)
        IN  (s.phase = "si_chown" /\ (s.req.uid = {}) # (s.req.gid = {})) =>
            /\ a[1] \in (IF s.req.uid = {} THEN {meta[s.path].uid} ELSE s.req.uid)
            /\ a[2] \in (IF s.req.gid = {} THEN {meta[s.path].gid} ELSE s.req.gid)

====
